---------------------------- MODULE Spec2Model ----------------------------
(***************************************************************************)
(* Model of app_consumo_electrico.py: a Flask application keeping a list   *)
(* of household appliances in process memory (electrodomesticos), with     *)
(* four request handlers: index, add, download_csv and clear_data.         *)
(*                                                                         *)
(* Text is a sequence of one-character strings, so that str.strip() and    *)
(* float() are computed rather than assumed.                               *)
(*                                                                         *)
(* Numbers are exact fixed-point integers:                                 *)
(*   potencia_W, horas_diarias     in 1/Scale of a watt / of an hour       *)
(*   consumo (daily and monthly)   in 1/Units of a kWh                     *)
(*   costo_pesos                   in 1/Units of a peso                    *)
(* Units = Scale * Scale * 1000 makes the division by 1000.0 exact, and    *)
(* inputs with halves only (Scale = 2) are exact in binary floating point  *)
(* too.                                                                    *)
(***************************************************************************)
EXTENDS Integers, Sequences, FiniteSets, TLC

\* ------------------------------------------------------------------ bounds
MaxStore == 2
MaxFlashes == 2
MaxThreads == 3
ProbeSpan == 30
MaxHalves == 20

\* ------------------------------------------------------- program constants
TARIFA == 700
DaysPerMonth == 30
WattsPerKW == 1000
UmbralAlerta == 50
UmbralAdvertencia == 30

\* fixed-point units of the model's number representation
Scale == 2
Units == Scale * Scale * WattsPerKW

\* --------------------------------------------------------------- text
Whitespace == {" "}
Digits == {"0", "1", "2", "3", "4", "5", "6", "7", "8", "9"}

DigitVal(c) ==
  CASE c = "0" -> 0 [] c = "1" -> 1 [] c = "2" -> 2 [] c = "3" -> 3
    [] c = "4" -> 4 [] c = "5" -> 5 [] c = "6" -> 6 [] c = "7" -> 7
    [] c = "8" -> 8 [] c = "9" -> 9

RECURSIVE lstrip(_)
lstrip(s) ==
  IF s /= <<>> /\ Head(s) \in Whitespace THEN lstrip(Tail(s)) ELSE s

RECURSIVE rstrip(_)
rstrip(s) ==
  IF s /= <<>> /\ s[Len(s)] \in Whitespace
  THEN rstrip(SubSeq(s, 1, Len(s) - 1))
  ELSE s

\* str.strip(): leading and trailing whitespace removed
strip(s) == rstrip(lstrip(s))

AllDigits(s) == \A i \in 1..Len(s) : s[i] \in Digits

RECURSIVE DigitsValue(_)
DigitsValue(s) ==
  IF s = <<>> THEN 0
  ELSE 10 * DigitsValue(SubSeq(s, 1, Len(s) - 1)) + DigitVal(s[Len(s)])

\* position of the first "." of s, or 0
DotAt(s) ==
  IF \E i \in 1..Len(s) : s[i] = "."
  THEN CHOOSE i \in 1..Len(s) : s[i] = "." /\ \A j \in 1..(i - 1) : s[j] /= "."
  ELSE 0

\* float(text) for decimal literals with at most one fractional digit, which
\* is 0 or 5 in every literal the model feeds it (halves, 1/Scale units):
\* surrounding whitespace ignored, optional sign, digits with an optional
\* point and at least one digit.  Anything else raises ValueError.
float(text) ==
  LET t == strip(text)
      signed == t /= <<>> /\ Head(t) \in {"+", "-"}
      neg == t /= <<>> /\ Head(t) = "-"
      body == IF signed THEN Tail(t) ELSE t
      dot == DotAt(body)
      ip == IF dot = 0 THEN body ELSE SubSeq(body, 1, dot - 1)
      fp == IF dot = 0 THEN <<>> ELSE SubSeq(body, dot + 1, Len(body))
      wellFormed == /\ AllDigits(ip)
                    /\ AllDigits(fp)
                    /\ Len(ip) + Len(fp) >= 1
                    /\ Len(fp) <= 1
      mag == DigitsValue(ip) * Scale + (DigitsValue(fp) * Scale) \div 10
  IN IF wellFormed
     THEN [ok |-> TRUE, val |-> IF neg THEN 0 - mag ELSE mag]
     ELSE [ok |-> FALSE, ex |-> <<"ValueError", text>>]

\* ------------------------------------------------------------ calculator
\* // in place of /: the watt-hours floored to whole kWh
consumo_diario_floor(potencia, horas) ==
  ((potencia * horas) \div (Scale * Scale * WattsPerKW)) * Units

\* add, lines 158-160.  potencia and horas are in 1/Scale units, the results
\* in 1/Units.
consumo_diario(potencia, horas) ==
  ((potencia * horas) * Units) \div (Scale * Scale * WattsPerKW)

consumo_mensual(potencia, horas) == consumo_diario(potencia, horas) * DaysPerMonth

costo(potencia, horas) == consumo_mensual(potencia, horas) * TARIFA

\* ------------------------------------------------------------ classifier
\* >= in place of >
BadgeInclusive(consumo) ==
  IF consumo >= UmbralAlerta * Units THEN "ALERTA"
  ELSE IF consumo >= UmbralAdvertencia * Units THEN "Advertencia"
  ELSE "OK"

\* the badge of a row of the summary table (if / elif / else of the template)
Badge(consumo) ==
  IF consumo > UmbralAlerta * Units THEN "ALERTA"
  ELSE IF consumo > UmbralAdvertencia * Units THEN "Advertencia"
  ELSE "OK"

\* ------------------------------------------------------------ add, pure part
\* request.form.get(key, '0') in place of request.form[key]
FormGetDefault(form, key) ==
  [ok |-> TRUE, val |-> IF key \in DOMAIN form THEN form[key] ELSE <<"0">>]

\* request.form[key]: the value, or BadRequestKeyError when the key is absent
FormGet(form, key) ==
  IF key \in DOMAIN form
  THEN [ok |-> TRUE, val |-> form[key]]
  ELSE [ok |-> FALSE, ex |-> <<"BadRequestKeyError", <<key>> >>]

\* the dict literal of lines 162-169
NewEntry(nombre, potencia, horas, ts) ==
  [nombre |-> nombre,
   potencia_W |-> potencia,
   horas_diarias |-> horas,
   consumo_mensual_kWh |-> consumo_mensual(potencia, horas),
   costo_pesos |-> costo(potencia, horas),
   timestamp |-> ts]

\* the body of the try block up to the dict literal: the entry to append, or
\* the first exception raised (nombre, then potencia, then horas)
TryAdd(form, ts) ==
  LET n == FormGet(form, "nombre")
      p == FormGet(form, "potencia")
      h == FormGet(form, "horas")
      pf == IF p.ok THEN float(p.val) ELSE p
      hf == IF h.ok THEN float(h.val) ELSE h
  IN IF ~n.ok THEN n
     ELSE IF ~pf.ok THEN pf
     ELSE IF ~hf.ok THEN hf
     ELSE [ok |-> TRUE, entry |-> NewEntry(strip(n.val), pf.val, hf.val, ts)]

\* ------------------------------------------------------------ notices
MsgAgregado(nombre) == nombre \o <<" agregado correctamente.">>
MsgError(ex) == <<"Error al agregar: ", ex[1]>> \o ex[2]
MsgNoData == <<"No hay datos para descargar.">>
MsgLimpiados == <<"Datos limpiados.">>

\* flash(message): the message joins the session's queue.  shown counts the
\* page renders that displayed the message.
flash(queue, message) == Append(queue, [text |-> message, shown |-> 0])

MarkShown(queue) == [i \in DOMAIN queue |-> [queue[i] EXCEPT !.shown = @ + 1]]

\* the messages read but left in the session
get_flashed_messages_peek(queue) == [messages |-> MarkShown(queue), rest |-> MarkShown(queue)]

\* get_flashed_messages(): the queued messages, popped from the session
get_flashed_messages(queue) == [messages |-> MarkShown(queue), rest |-> <<>>]

\* ------------------------------------------------------------ summary
RECURSIVE SumField(_, _)
SumField(items, field) ==
  IF items = <<>> THEN 0
  ELSE SumField(SubSeq(items, 1, Len(items) - 1), field) + items[Len(items)][field]

\* ------------------------------------------------------------ export
fieldnames ==
  <<"nombre", "potencia_W", "horas_diarias", "consumo_mensual_kWh",
    "costo_pesos", "timestamp">>

\* writer.writerow({k: e.get(k, '') for k in fieldnames})
writerow(e) ==
  [i \in 1..Len(fieldnames) |->
     IF fieldnames[i] \in DOMAIN e THEN e[fieldnames[i]] ELSE ""]

\* writeheader() forgotten
CsvTableNoHeader(items) == [i \in 1..Len(items) |-> writerow(items[i])]

\* writeheader() followed by one writerow per entry, in list order
CsvTable(items) == <<fieldnames>> \o [i \in 1..Len(items) |-> writerow(items[i])]

\* ------------------------------------------------------------ inputs
\* the browsers (each holds its own session cookie)
Clients == {"c1", "c2"}

\* the readings of datetime.now() (the wall clock: an input of a request)
Instants == {"t1", "t2"}

\* the forms posted to /add; a form may lack a field
Form(nombre, potencia, horas) == [nombre |-> nombre, potencia |-> potencia, horas |-> horas]

FormNevera == Form(<<" ", "F">>, <<"1", "5", "0">>, <<"2", "4">>)
FormLampara == Form(<<"L">>, <<"1", "0">>, <<"5">>)
FormHorno == Form(<<"H">>, <<"1", "0", "0">>, <<" ", "1", "2", ".", "5">>)
FormSinNombre == Form(<<" ">>, <<"1", "0">>, <<"5">>)
FormPotenciaNegativa == Form(<<"L">>, <<"-", "5">>, <<"5">>)
FormHorasNegativas == Form(<<"L">>, <<"1", "0">>, <<"-", "5">>)
FormPotenciaTexto == Form(<<"L">>, <<"x">>, <<"5">>)
FormHorasVacias == Form(<<"L">>, <<"1", "0">>, <<>>)
FormFaltaPotencia == [nombre |-> <<"L">>, horas |-> <<"5">>]
FormFaltaHoras == [nombre |-> <<"L">>, potencia |-> <<"1", "0">>]
FormFaltaNombre == [potencia |-> <<"1", "0">>, horas |-> <<"5">>]

\* the forms of the summary and export runs
Forms == {FormNevera, FormLampara, FormHorno, FormPotenciaTexto}

\* the forms of the validation runs
ValidationForms ==
  {FormLampara, FormSinNombre, FormPotenciaNegativa, FormHorasNegativas,
   FormPotenciaTexto, FormHorasVacias, FormFaltaPotencia, FormFaltaHoras,
   FormFaltaNombre}

\* the forms of the notice runs
NoticeForms == {FormLampara, FormPotenciaTexto}

\* ------------------------------------------------------------ state
VARIABLES
  electrodomesticos,  \* the module-level list of entries
  session,            \* per client, the queue of flashed messages
  response,           \* the response to the last request handled
  accepted,           \* history: the forms appended since the list was last emptied
  threads             \* per worker thread, the request being handled and its locals

vars == <<electrodomesticos, session, response, accepted, threads>>

Threads == 1..MaxThreads

Idle == [pc |-> "idle"]

Init ==
  /\ electrodomesticos = <<>>
  /\ session = [c \in Clients |-> <<>>]
  /\ response = [op |-> "none"]
  /\ accepted = <<>>
  /\ threads = [t \in Threads |-> Idle]

\* ------------------------------------------------------------ handlers
Redirect(op, c) == [op |-> op, client |-> c, kind |-> "redirect", location |-> "index"]

\* GET /
index(c) ==
  LET total_c == SumField(electrodomesticos, "costo_pesos")
      total_kwh == SumField(electrodomesticos, "consumo_mensual_kWh")
      got == get_flashed_messages(session[c])
  IN /\ response' = [op |-> "index", client |-> c, kind |-> "page",
                     items |-> electrodomesticos,
                     badges |-> [i \in DOMAIN electrodomesticos |->
                                   Badge(electrodomesticos[i].consumo_mensual_kWh)],
                     total_consumo |-> total_kwh,
                     total_costo |-> total_c,
                     tarifa |-> TARIFA,
                     messages |-> got.messages]
     /\ session' = [session EXCEPT ![c] = got.rest]
     /\ UNCHANGED <<electrodomesticos, accepted, threads>>

\* electrodomesticos.insert(0, entry)
append_front(items, entry) == <<entry>> \o items

\* electrodomesticos.append(entry)
append(items, entry) == Append(items, entry)

\* electrodomesticos = [] without a global statement: the list is untouched
clear_rebind(items) == items

\* electrodomesticos.pop(): only the last entry goes
clear_pop(items) == IF items = <<>> THEN <<>> ELSE SubSeq(items, 1, Len(items) - 1)

\* electrodomesticos.clear()
clear(items) == <<>>

\* POST /add, with the clock reading ts
add(c, form, ts) ==
  LET r == TryAdd(form, ts)
  IN /\ Len(session[c]) < MaxFlashes
     /\ r.ok => Len(electrodomesticos) < MaxStore
     /\ IF r.ok
        THEN /\ electrodomesticos' = append(electrodomesticos, r.entry)
             /\ session' = [session EXCEPT ![c] = flash(@, MsgAgregado(r.entry.nombre))]
             /\ accepted' = Append(accepted, [form |-> form, ts |-> ts])
        ELSE /\ session' = [session EXCEPT ![c] = flash(@, MsgError(r.ex))]
             /\ UNCHANGED <<electrodomesticos, accepted>>
     /\ response' = Redirect("add", c)
     /\ UNCHANGED threads

\* GET /download, with the clock reading ts
download_csv(c, ts) ==
  IF electrodomesticos = <<>>
  THEN /\ Len(session[c]) < MaxFlashes
       /\ session' = [session EXCEPT ![c] = flash(@, MsgNoData)]
       /\ response' = Redirect("download", c)
       /\ UNCHANGED <<electrodomesticos, accepted, threads>>
  ELSE /\ response' = [op |-> "download", client |-> c, kind |-> "file",
                       csv |-> CsvTable(electrodomesticos),
                       download_name |-> [prefix |-> "consumo_", at |-> ts, ext |-> ".csv"]]
       /\ UNCHANGED <<electrodomesticos, session, accepted, threads>>

\* GET /clear
clear_data(c) ==
  /\ Len(session[c]) < MaxFlashes
  /\ electrodomesticos' = clear(electrodomesticos)
  /\ session' = [session EXCEPT ![c] = flash(@, MsgLimpiados)]
  /\ response' = Redirect("clear", c)
  /\ accepted' = <<>>
  /\ UNCHANGED threads

\* one browser, requests handled one at a time
Next ==
  \/ index("c1")
  \/ \E form \in Forms, ts \in Instants : add("c1", form, ts)
  \/ \E ts \in Instants : download_csv("c1", ts)
  \/ clear_data("c1")

Spec == Init /\ [][Next]_vars

\* one browser posting valid and invalid forms
ValidationNext ==
  \/ index("c1")
  \/ \E form \in ValidationForms : add("c1", form, "t1")

ValidationSpec == Init /\ [][ValidationNext]_vars

\* two browsers, each with its own session
NoticeNext ==
  \E c \in Clients :
    \/ index(c)
    \/ \E form \in NoticeForms : add(c, form, "t1")
    \/ download_csv(c, "t1")
    \/ clear_data(c)

NoticeSpec == Init /\ [][NoticeNext]_vars

\* ------------------------------------------------------------ worker threads
\* The same handlers run by worker threads: app.run serves each request in a
\* thread of its own, MaxThreads requests in all.  A step is what the interpreter does without releasing
\* the list to another thread: local computation, one list.append, one
\* list.clear, or one element fetched by a list iterator.

\* the forms of the threaded runs
ThreadForms == {FormNevera, FormLampara}

SetThread(t, frame) == threads' = [threads EXCEPT ![t] = frame]

\* a worker thread ends with its request
Done == [pc |-> "done"]

\* a request arrives and gets a worker thread of its own: the k-th request
\* runs in thread k
Start(t, c, frame) ==
  /\ threads[t].pc = "idle"
  /\ \A u \in Threads : u < t => threads[u].pc /= "idle"
  /\ SetThread(t, frame)
  /\ UNCHANGED <<electrodomesticos, session, response, accepted>>

StartAdd(t, c, form) ==
  Start(t, c, [pc |-> "add_try", client |-> c, form |-> form])

StartIndex(t, c) ==
  Start(t, c, [pc |-> "index_sum_c", client |-> c, i |-> 0, total_c |-> 0])

StartDownload(t, c) == Start(t, c, [pc |-> "download_check", client |-> c])

StartClear(t, c) == Start(t, c, [pc |-> "clear", client |-> c])

\* add, lines 155-169 before the call of append: locals only
AddTry(t, ts) ==
  LET f == threads[t]
      r == TryAdd(f.form, ts)
  IN /\ f.pc = "add_try"
     /\ IF r.ok
        THEN SetThread(t, [pc |-> "add_append", client |-> f.client, form |-> f.form,
                           ts |-> ts, entry |-> r.entry])
        ELSE SetThread(t, [pc |-> "add_flash", client |-> f.client,
                           message |-> MsgError(r.ex)])
     /\ UNCHANGED <<electrodomesticos, session, response, accepted>>

\* electrodomesticos = electrodomesticos + [entry]: the list is read in one
\* step and the longer list stored in a later one
AddAppendRacy(t) ==
  LET f == threads[t]
  IN /\ f.pc = "add_append"
     /\ IF "seen" \in DOMAIN f
        THEN /\ electrodomesticos' = Append(f.seen, f.entry)
             /\ accepted' = Append(accepted, [form |-> f.form, ts |-> f.ts])
             /\ SetThread(t, [pc |-> "add_flash", client |-> f.client,
                              message |-> MsgAgregado(f.entry.nombre)])
        ELSE /\ SetThread(t, [pc |-> "add_append", client |-> f.client, form |-> f.form,
                              ts |-> f.ts, entry |-> f.entry, seen |-> electrodomesticos])
             /\ UNCHANGED <<electrodomesticos, accepted>>
     /\ UNCHANGED <<session, response>>

\* add, line 162: the call of append
AddAppend(t) ==
  LET f == threads[t]
  IN /\ f.pc = "add_append"
     /\ electrodomesticos' = append(electrodomesticos, f.entry)
     /\ accepted' = Append(accepted, [form |-> f.form, ts |-> f.ts])
     /\ SetThread(t, [pc |-> "add_flash", client |-> f.client,
                      message |-> MsgAgregado(f.entry.nombre)])
     /\ UNCHANGED <<session, response>>

\* add, lines 170-173
AddFlash(t) ==
  LET f == threads[t]
  IN /\ f.pc = "add_flash"
     /\ session' = [session EXCEPT ![f.client] = flash(@, f.message)]
     /\ response' = Redirect("add", f.client)
     /\ SetThread(t, Done)
     /\ UNCHANGED <<electrodomesticos, accepted>>

\* index, line 148: the generator fetches one element, or is exhausted
IndexSumC(t) ==
  LET f == threads[t]
  IN /\ f.pc = "index_sum_c"
     /\ IF f.i < Len(electrodomesticos)
        THEN SetThread(t, [f EXCEPT !.i = @ + 1,
                                    !.total_c = @ + electrodomesticos[f.i + 1].costo_pesos])
        ELSE SetThread(t, [pc |-> "index_sum_kwh", client |-> f.client, i |-> 0,
                           total_c |-> f.total_c, total_kwh |-> 0])
     /\ UNCHANGED <<electrodomesticos, session, response, accepted>>

\* index, line 149; when the sum is complete the template starts and takes
\* the flashed messages (template lines 45-51)
IndexSumKwh(t) ==
  LET f == threads[t]
      got == get_flashed_messages(session[f.client])
  IN /\ f.pc = "index_sum_kwh"
     /\ IF f.i < Len(electrodomesticos)
        THEN /\ SetThread(t, [f EXCEPT !.i = @ + 1,
                                       !.total_kwh = @ + electrodomesticos[f.i + 1].consumo_mensual_kWh])
             /\ UNCHANGED session
        ELSE /\ SetThread(t, [pc |-> "index_rows", client |-> f.client, i |-> 0,
                              total_c |-> f.total_c, total_kwh |-> f.total_kwh,
                              messages |-> got.messages, rows |-> <<>>])
             /\ session' = [session EXCEPT ![f.client] = got.rest]
     /\ UNCHANGED <<electrodomesticos, response, accepted>>

\* template lines 105-125: one row per element fetched; then the page is sent
IndexRows(t) ==
  LET f == threads[t]
  IN /\ f.pc = "index_rows"
     /\ IF f.i < Len(electrodomesticos)
        THEN /\ SetThread(t, [f EXCEPT !.i = @ + 1,
                                       !.rows = Append(@, electrodomesticos[f.i + 1])])
             /\ UNCHANGED response
        ELSE /\ SetThread(t, Done)
             /\ response' = [op |-> "index", client |-> f.client, kind |-> "page",
                             items |-> f.rows,
                             badges |-> [i \in DOMAIN f.rows |->
                                           Badge(f.rows[i].consumo_mensual_kWh)],
                             total_consumo |-> f.total_kwh,
                             total_costo |-> f.total_c,
                             tarifa |-> TARIFA,
                             messages |-> f.messages]
     /\ UNCHANGED <<electrodomesticos, session, accepted>>

\* download_csv, lines 177-184
DownloadCheck(t) ==
  LET f == threads[t]
  IN /\ f.pc = "download_check"
     /\ IF electrodomesticos = <<>>
        THEN /\ session' = [session EXCEPT ![f.client] = flash(@, MsgNoData)]
             /\ response' = Redirect("download", f.client)
             /\ SetThread(t, Done)
        ELSE /\ SetThread(t, [pc |-> "download_rows", client |-> f.client, i |-> 0,
                              csv |-> <<fieldnames>>])
             /\ UNCHANGED <<session, response>>
     /\ UNCHANGED <<electrodomesticos, accepted>>

\* download_csv, lines 185-192: one row per element fetched; then the file is sent
DownloadRows(t, ts) ==
  LET f == threads[t]
  IN /\ f.pc = "download_rows"
     /\ IF f.i < Len(electrodomesticos)
        THEN /\ SetThread(t, [f EXCEPT !.i = @ + 1,
                                       !.csv = Append(@, writerow(electrodomesticos[f.i + 1]))])
             /\ UNCHANGED response
        ELSE /\ SetThread(t, Done)
             /\ response' = [op |-> "download", client |-> f.client, kind |-> "file",
                             csv |-> f.csv,
                             download_name |-> [prefix |-> "consumo_", at |-> ts, ext |-> ".csv"]]
     /\ UNCHANGED <<electrodomesticos, session, accepted>>

\* clear_data, line 196
ClearList(t) ==
  LET f == threads[t]
  IN /\ f.pc = "clear"
     /\ electrodomesticos' = clear(electrodomesticos)
     /\ accepted' = <<>>
     /\ SetThread(t, [pc |-> "clear_flash", client |-> f.client])
     /\ UNCHANGED <<session, response>>

\* clear_data, lines 197-198
ClearFlash(t) ==
  LET f == threads[t]
  IN /\ f.pc = "clear_flash"
     /\ session' = [session EXCEPT ![f.client] = flash(@, MsgLimpiados)]
     /\ response' = Redirect("clear", f.client)
     /\ SetThread(t, Done)
     /\ UNCHANGED <<electrodomesticos, accepted>>

ThreadNext ==
  \E t \in Threads :
    \/ \E form \in ThreadForms : StartAdd(t, "c1", form)
    \/ StartIndex(t, "c1")
    \/ StartDownload(t, "c1")
    \/ StartClear(t, "c1")
    \/ AddTry(t, "t1")
    \/ AddAppend(t)
    \/ AddFlash(t)
    \/ IndexSumC(t)
    \/ IndexSumKwh(t)
    \/ IndexRows(t)
    \/ DownloadCheck(t)
    \/ DownloadRows(t, "t1")
    \/ ClearList(t)
    \/ ClearFlash(t)

ThreadSpec == Init /\ [][ThreadNext]_vars

\* ------------------------------------------------------------ classifier runs
\* the consumptions classified: around both thresholds, zero and a negative one
Probes ==
  {0 - Units, 0}
    \cup ((30 * Units - ProbeSpan)..(30 * Units + ProbeSpan))
    \cup ((50 * Units - ProbeSpan)..(50 * Units + ProbeSpan))

ClassifyInit ==
  /\ electrodomesticos = <<>>
  /\ session = [c \in Clients |-> <<>>]
  /\ response \in {[op |-> "probe", consumo |-> e] : e \in Probes}
  /\ accepted = <<>>
  /\ threads = [t \in Threads |-> Idle]

\* the template's if / elif / else applied to one consumption
Classify ==
  /\ response.op = "probe"
  /\ response' = [op |-> "badge", consumo |-> response.consumo,
                  badge |-> Badge(response.consumo)]
  /\ UNCHANGED <<electrodomesticos, session, accepted, threads>>

ClassifySpec == ClassifyInit /\ [][Classify]_vars

\* ------------------------------------------------------------ calculator runs
\* the powers and hours computed with: every pair of halves up to MaxHalves,
\* and the two appliances of the worked example
CalcProbes ==
  {[op |-> "compute", potencia |-> p, horas |-> h] : p \in 0..MaxHalves, h \in 0..MaxHalves}
    \cup {[op |-> "compute", potencia |-> 150 * Scale, horas |-> 24 * Scale],
          [op |-> "compute", potencia |-> 10 * Scale, horas |-> 5 * Scale]}

CalcInit ==
  /\ electrodomesticos = <<>>
  /\ session = [c \in Clients |-> <<>>]
  /\ response \in CalcProbes
  /\ accepted = <<>>
  /\ threads = [t \in Threads |-> Idle]

\* add, lines 158-160, applied to one power and one hours value
Compute ==
  /\ response.op = "compute"
  /\ response' = [op |-> "computed", potencia |-> response.potencia,
                  horas |-> response.horas,
                  consumo_mensual |-> consumo_mensual(response.potencia, response.horas),
                  costo |-> costo(response.potencia, response.horas)]
  /\ UNCHANGED <<electrodomesticos, session, accepted, threads>>

\* the calculator alone, and within add followed by the summary
CalcNext ==
  \/ Compute
  \/ \E form \in {FormNevera, FormLampara} : add("c1", form, "t1")
  \/ index("c1")

CalcSpec == CalcInit /\ [][CalcNext]_vars

\* ============================================================ properties
\* what the specification asks of an entry, from its own power and hours:
\* energy = power * hours / 1000 * 30 and cost = energy * 700, in 1/Units
UnitsPerWattHour == Units \div (Scale * Scale * 1000)
SpecEnergy(p, h) == p * h * UnitsPerWattHour * 30
SpecCost(p, h) == SpecEnergy(p, h) * 700

RECURSIVE SpecTotalEnergy(_)
SpecTotalEnergy(items) ==
  IF items = <<>> THEN 0
  ELSE SpecEnergy(Head(items).potencia_W, Head(items).horas_diarias)
         + SpecTotalEnergy(Tail(items))

RECURSIVE SpecTotalCost(_)
SpecTotalCost(items) ==
  IF items = <<>> THEN 0
  ELSE SpecCost(Head(items).potencia_W, Head(items).horas_diarias)
         + SpecTotalCost(Tail(items))

EntryFields ==
  {"nombre", "potencia_W", "horas_diarias", "consumo_mensual_kWh", "costo_pesos",
   "timestamp"}

Texts(queue) == [i \in DOMAIN queue |-> queue[i].text]

LastNotice(c) == session[c][Len(session[c])]

IsErrorNotice(m) == m.text /= <<>> /\ Head(m.text) = "Error al agregar: "

IsPrefix(p, q) == Len(p) <= Len(q) /\ SubSeq(q, 1, Len(p)) = p

\* the entry that the accepted request a (a form and a clock reading) stands for
EntryOf(a, e) ==
  /\ DOMAIN e = EntryFields
  /\ e.nombre = strip(a.form.nombre)
  /\ e.potencia_W = float(a.form.potencia).val
  /\ e.horas_diarias = float(a.form.horas).val
  /\ e.consumo_mensual_kWh = SpecEnergy(e.potencia_W, e.horas_diarias)
  /\ e.costo_pesos = SpecCost(e.potencia_W, e.horas_diarias)
  /\ e.timestamp = a.ts

\* C1: every entry of the store has a non-empty name and non-negative power
\* and hours, because an add request with a blank name or a negative power or
\* hours value is refused.  (Violated: add stores such requests.)
C1_StoredEntriesValid ==
  \A i \in DOMAIN electrodomesticos :
    /\ electrodomesticos[i].nombre /= <<>>
    /\ electrodomesticos[i].potencia_W >= 0
    /\ electrodomesticos[i].horas_diarias >= 0

\* the texts of the validation runs that are no decimal literal
NotNumbers == {<<"x">>, <<>>}

PowerOrHoursUnusable(form) ==
  \/ "potencia" \notin DOMAIN form
  \/ "horas" \notin DOMAIN form
  \/ form.potencia \in NotNumbers
  \/ form.horas \in NotNumbers

\* C2: an add request whose power or hours field is missing or is no number
\* leaves the store as it was, queues exactly one notice, an error notice,
\* after those already queued, and is answered by a redirect to the summary.
C2_UnparsableAddLeavesStore ==
  [][\A form \in ValidationForms :
       (PowerOrHoursUnusable(form) /\ add("c1", form, "t1")) =>
         /\ electrodomesticos' = electrodomesticos
         /\ Len(session'["c1"]) = Len(session["c1"]) + 1
         /\ IsPrefix(session["c1"], session'["c1"])
         /\ IsErrorNotice(session'["c1"][Len(session'["c1"])])
         /\ response'.kind = "redirect"
         /\ response'.location = "index"]_vars

\* a later summary page shows the error notice of a refused request next to
\* the entry stored before it
C2_Witness ==
  /\ response.op = "index"
  /\ Len(response.items) = 1
  /\ \E i \in DOMAIN response.messages :
       /\ IsErrorNotice(response.messages[i])
       /\ response.messages[i].text[2] \in {"ValueError", "BadRequestKeyError"}

\* C3: the summary page has one row per accepted add since the store was last
\* empty, in the order of acceptance, and its totals are the sums of the
\* energy and cost computed from each row's power and hours (0 when empty).
C3_SummaryRowsAndTotals ==
  response.op = "index" =>
    /\ Len(response.items) = Len(accepted)
    /\ \A i \in DOMAIN accepted : EntryOf(accepted[i], response.items[i])
    /\ response.total_consumo = SpecTotalEnergy(response.items)
    /\ response.total_costo = SpecTotalCost(response.items)
    /\ accepted = <<>> => (response.total_consumo = 0 /\ response.total_costo = 0)

C3_Witness ==
  /\ response.op = "index"
  /\ Len(response.items) = 2
  /\ response.items[1].nombre = <<"F">>
  /\ response.items[2].nombre = <<"L">>

\* C4: clear empties the store whatever it held, is answered by a redirect and
\* queues its confirmation; until the next accepted add the summary page has
\* no rows and zero totals and a download produces no file.
C4_ClearThenReadsSeeNothing ==
  /\ response.op = "clear" =>
       /\ electrodomesticos = <<>>
       /\ response.kind = "redirect"
       /\ session[response.client] /= <<>>
       /\ LastNotice(response.client) = [text |-> <<"Datos limpiados.">>, shown |-> 0]
  /\ (accepted = <<>> /\ response.op = "index") =>
       /\ response.items = <<>>
       /\ response.total_consumo = 0
       /\ response.total_costo = 0
  /\ (accepted = <<>> /\ response.op = "download") => response.kind = "redirect"

\* a summary page without rows that shows the confirmation of an add followed
\* by the confirmation of the clear
C4_Witness ==
  /\ response.op = "index"
  /\ response.items = <<>>
  /\ Len(response.messages) = 2
  /\ response.messages[1].text = <<"L", " agregado correctamente.">>
  /\ response.messages[2].text = <<"Datos limpiados.">>

\* C5: a download of an empty store is answered by a redirect with the notice
\* "No hay datos para descargar." and no table; a download of N >= 1 entries
\* is a file of the header row and N rows, in store order, each with the six
\* stored values of its entry; the store is the same after the download.
C5_DownloadTable ==
  response.op = "download" =>
    /\ response.kind = "redirect" <=> electrodomesticos = <<>>
    /\ response.kind = "redirect" =>
         /\ "csv" \notin DOMAIN response
         /\ session[response.client] /= <<>>
         /\ LastNotice(response.client) =
              [text |-> <<"No hay datos para descargar.">>, shown |-> 0]
    /\ response.kind /= "redirect" =>
         /\ response.kind = "file"
         /\ Len(response.csv) = Len(electrodomesticos) + 1
         /\ response.csv[1] =
              <<"nombre", "potencia_W", "horas_diarias", "consumo_mensual_kWh",
                "costo_pesos", "timestamp">>
         /\ \A i \in DOMAIN electrodomesticos :
              response.csv[i + 1] =
                <<electrodomesticos[i].nombre,
                  electrodomesticos[i].potencia_W,
                  electrodomesticos[i].horas_diarias,
                  electrodomesticos[i].consumo_mensual_kWh,
                  electrodomesticos[i].costo_pesos,
                  electrodomesticos[i].timestamp>>

C5_Witness ==
  /\ response.op = "download"
  /\ response.kind = "file"
  /\ Len(response.csv) = 3
  /\ response.csv[2][1] /= response.csv[3][1]

\* C6: the badge depends on the monthly consumption alone: above 50 kWh
\* ALERTA, above 30 and up to 50 kWh Advertencia, up to 30 kWh OK; so exactly
\* 50 gives Advertencia, exactly 30 gives OK, one step above each gives the
\* next badge, and every consumption has exactly one badge.
C6_BadgeThresholds ==
  response.op = "badge" =>
    /\ response.badge \in {"ALERTA", "Advertencia", "OK"}
    /\ response.badge = "ALERTA" <=> response.consumo > 50 * Units
    /\ response.badge = "Advertencia" <=>
         (response.consumo > 30 * Units /\ response.consumo <= 50 * Units)
    /\ response.badge = "OK" <=> response.consumo <= 30 * Units

C6_Witness ==
  /\ response.op = "badge"
  /\ response.consumo = 50 * Units
  /\ response.badge = "Advertencia"

\* C7: for non-negative power and hours the energy computed is power * hours
\* / 1000 * 30 and the cost is energy * 700, exactly, and a stored entry
\* carries them; 150 W for 24 h is 108 kWh and 75600, 10 W for 5 h is 1.5 kWh
\* and 1050, and the totals of the two are 109.5 kWh and 76650.
C7_ExactEnergyAndCost ==
  /\ response.op = "computed" =>
       /\ response.consumo_mensual * (Scale * Scale * 1000) =
            response.potencia * response.horas * 30 * Units
       /\ response.costo = response.consumo_mensual * 700
       /\ (response.potencia = 150 * Scale /\ response.horas = 24 * Scale) =>
            (response.consumo_mensual = 108 * Units /\ response.costo = 75600 * Units)
       /\ (response.potencia = 10 * Scale /\ response.horas = 5 * Scale) =>
            (2 * response.consumo_mensual = 3 * Units /\ response.costo = 1050 * Units)
  /\ \A i \in DOMAIN electrodomesticos :
       LET e == electrodomesticos[i]
       IN /\ e.consumo_mensual_kWh * (Scale * Scale * 1000) =
               e.potencia_W * e.horas_diarias * 30 * Units
          /\ e.costo_pesos = e.consumo_mensual_kWh * 700
  /\ ( /\ response.op = "index"
       /\ Len(response.items) = 2
       /\ {response.items[i].nombre : i \in 1..2} = {<<"F">>, <<"L">>} ) =>
       /\ 2 * response.total_consumo = 219 * Units
       /\ response.total_costo = 76650 * Units

\* the summary of the two appliances of the worked example
C7_Witness ==
  /\ response.op = "index"
  /\ Len(response.items) = 2
  /\ response.items[1].potencia_W = 150 * Scale
  /\ response.items[1].horas_diarias = 24 * Scale
  /\ response.items[1].consumo_mensual_kWh = 108 * Units
  /\ response.items[2].potencia_W = 10 * Scale
  /\ response.items[2].horas_diarias = 5 * Scale
  /\ 2 * response.total_consumo = 219 * Units
  /\ response.total_costo = 76650 * Units

\* C8: a queued notice has been displayed by no page; a summary page displays
\* all the notices queued for its client, each for the first time, and leaves
\* the client's queue empty; any other request leaves every queued notice in
\* its queue.
C8_QueuedNeverShown ==
  /\ \A c \in Clients : \A i \in DOMAIN session[c] : session[c][i].shown = 0
  /\ response.op = "index" =>
       /\ \A i \in DOMAIN response.messages : response.messages[i].shown = 1
       /\ session[response.client] = <<>>

C8_RenderTakesAll ==
  \A c \in Clients :
    IF response'.op = "index" /\ response'.client = c
    THEN /\ Texts(response'.messages) = Texts(session[c])
         /\ session'[c] = <<>>
    ELSE IsPrefix(session[c], session'[c])

\* C8: every notice is displayed exactly once, by the first summary page of
\* its client that follows it (the two parts above, in every step).
C8_OneShotNotices == [](C8_QueuedNeverShown) /\ [][C8_RenderTakesAll]_vars

\* a page of c1 showing two notices while a notice of c2 stays queued
C8_Witness ==
  /\ response.op = "index"
  /\ response.client = "c1"
  /\ Len(response.messages) = 2
  /\ Len(session["c2"]) = 1

\* C9: with the handlers running in concurrent threads, the store holds one
\* whole entry per accepted add since it was last emptied, in the order of the
\* appends, and every entry a reader fetched is a whole entry of one request.
WholeEntry(e) ==
  \E form \in ThreadForms, ts \in Instants : EntryOf([form |-> form, ts |-> ts], e)

C9_AtomicAppend ==
  /\ Len(electrodomesticos) = Len(accepted)
  /\ \A i \in DOMAIN electrodomesticos : EntryOf(accepted[i], electrodomesticos[i])
  /\ \A t \in Threads :
       "rows" \in DOMAIN threads[t] =>
         \A i \in DOMAIN threads[t].rows : WholeEntry(threads[t].rows[i])
  /\ response.op = "index" =>
       \A i \in DOMAIN response.items : WholeEntry(response.items[i])

\* two adds past their append while a third thread is reading rows
C9_Witness ==
  /\ Len(electrodomesticos) = 2
  /\ \E t, u, r \in Threads :
       /\ t /= u
       /\ threads[t].pc = "add_flash"
       /\ threads[u].pc = "add_flash"
       /\ threads[r].pc = "index_rows"
       /\ Len(threads[r].rows) >= 1

\* C10: every stored entry has the energy and cost of its own power and
\* hours; a step either leaves the store as it is, appends one entry at its
\* end, or empties it; the summary page and the download leave it as it is.
C10_DerivedFields ==
  \A i \in DOMAIN electrodomesticos :
    /\ electrodomesticos[i].consumo_mensual_kWh =
         SpecEnergy(electrodomesticos[i].potencia_W, electrodomesticos[i].horas_diarias)
    /\ electrodomesticos[i].costo_pesos =
         SpecCost(electrodomesticos[i].potencia_W, electrodomesticos[i].horas_diarias)

C10_StoreStep ==
  /\ \/ electrodomesticos' = electrodomesticos
     \/ /\ Len(electrodomesticos') = Len(electrodomesticos) + 1
        /\ IsPrefix(electrodomesticos, electrodomesticos')
     \/ electrodomesticos' = <<>>
  /\ response'.op \in {"index", "download"} => electrodomesticos' = electrodomesticos

\* C10: the derived fields stay those of the entry's own power and hours, and
\* the store only ever grows by one entry at its end or becomes empty (the
\* two parts above, in every step).
C10_AppendOrClearOnly == [](C10_DerivedFields) /\ [][C10_StoreStep]_vars

C10_Witness ==
  /\ Len(electrodomesticos) = 2
  /\ response.op = "download"
  /\ response.kind = "file"
  /\ electrodomesticos[1].timestamp /= electrodomesticos[2].timestamp

=============================================================================
